---- MODULE Spec2Model ----
(***************************************************************************)
(* A model of the pcg package: the PCG32 base generator (pcg32.go, the     *)
(* version that pcg64.go calls) and the PCG64 composite generator          *)
(* (pcg64.go).                                                             *)
(*                                                                         *)
(* Machine words are kept at their width.  A uint64 is a tuple of 8 bytes  *)
(* and a uint32 a tuple of 4 bytes, least-significant byte first, so that  *)
(* every operation wraps modulo 2^64 (2^32) exactly as Go's does.          *)
(***************************************************************************)
EXTENDS Integers, Sequences, FiniteSets, TLC

(***************************************************************************)
(* Unsigned fixed-width arithmetic on little-endian byte tuples.           *)
(***************************************************************************)

Byte == 0..255

\* 2^k for 0 <= k <= 8.
Pow2(k) == <<1, 2, 4, 8, 16, 32, 64, 128, 256>>[k + 1]

\* The n-byte word of a small natural number v.
RECURSIVE FromNat(_, _)
FromNat(v, n) == IF n = 0 THEN <<>> ELSE <<v % 256>> \o FromNat(v \div 256, n - 1)

\* The bytes f[1], ..., f[n] as a tuple.
RECURSIVE Gather(_, _, _)
Gather(f, i, n) == IF i > n THEN <<>> ELSE <<f[i]>> \o Gather(f, i + 1, n)

Word(f, n) == Gather(f, 1, n)

\* A word written most-significant byte first, as a hexadecimal literal reads.
FromBE(b) == Word([i \in 1..Len(b) |-> b[Len(b) + 1 - i]], Len(b))

Zero(n) == Word([i \in 1..n |-> 0], n)

\* Byte i of word a, 0 outside the word.
At(a, i) == IF i >= 1 /\ i <= Len(a) THEN a[i] ELSE 0

\* uint64(x) of a uint32 x, and uint32(x) of a uint64 x.
Extend(a, n) == Word([i \in 1..n |-> At(a, i)], n)
Truncate(a, n) == Word([i \in 1..n |-> a[i]], n)

RECURSIVE AddC(_, _, _, _)
AddDigit(a, b, i, s) == <<s % 256>> \o AddC(a, b, i + 1, s \div 256)
AddC(a, b, i, c) == IF i > Len(a) THEN <<>> ELSE AddDigit(a, b, i, a[i] + b[i] + c)

\* a + b, wrapping at the width of a.
Add(a, b) == AddC(a, b, 1, 0)

\* The carry out of a + b + c (bits.Add64's second result).
RECURSIVE CarryOut(_, _, _, _)
CarryOut(a, b, i, c) ==
    IF i > Len(a) THEN c ELSE CarryOut(a, b, i + 1, (a[i] + b[i] + c) \div 256)

\* ^a, the bitwise complement.
Not(a) == Word([i \in 1..Len(a) |-> 255 - a[i]], Len(a))

\* -a, the two's complement.
Neg(a) == Add(Not(a), FromNat(1, Len(a)))

\* a - b, wrapping.
Sub(a, b) == Add(a, Neg(b))

\* Column k of the schoolbook product of a and b: the sum of a[i] * b[j] over
\* i + j = k + 1, for i from lo to hi.
RECURSIVE Col(_, _, _, _, _)
Col(a, b, k, lo, hi) ==
    IF lo > hi THEN 0 ELSE a[lo] * b[k + 1 - lo] + Col(a, b, k, lo + 1, hi)

Min(x, y) == IF x < y THEN x ELSE y
Max(x, y) == IF x > y THEN x ELSE y

\* The low n bytes of a * b: each column sum plus the carry c of the column below.
RECURSIVE MulC(_, _, _, _, _)
MulDigit(a, b, k, s, n) == <<s % 256>> \o MulC(a, b, k + 1, s \div 256, n)
MulC(a, b, k, c, n) ==
    IF k > n THEN <<>>
    ELSE MulDigit(a, b, k, Col(a, b, k, Max(1, k + 1 - Len(b)), Min(k, Len(a))) + c, n)

\* The same columns for two uint64 words, written out.
Col64(a, b, k) ==
    CASE k = 1 -> a[1] * b[1]
      [] k = 2 -> a[1] * b[2] + a[2] * b[1]
      [] k = 3 -> a[1] * b[3] + a[2] * b[2] + a[3] * b[1]
      [] k = 4 -> a[1] * b[4] + a[2] * b[3] + a[3] * b[2] + a[4] * b[1]
      [] k = 5 -> a[1] * b[5] + a[2] * b[4] + a[3] * b[3] + a[4] * b[2] + a[5] * b[1]
      [] k = 6 -> a[1] * b[6] + a[2] * b[5] + a[3] * b[4] + a[4] * b[3] + a[5] * b[2]
                  + a[6] * b[1]
      [] k = 7 -> a[1] * b[7] + a[2] * b[6] + a[3] * b[5] + a[4] * b[4] + a[5] * b[3]
                  + a[6] * b[2] + a[7] * b[1]
      [] k = 8 -> a[1] * b[8] + a[2] * b[7] + a[3] * b[6] + a[4] * b[5] + a[5] * b[4]
                  + a[6] * b[3] + a[7] * b[2] + a[8] * b[1]

RECURSIVE Mul64C(_, _, _, _)
Mul64Digit(a, b, k, s) == <<s % 256>> \o Mul64C(a, b, k + 1, s \div 256)
Mul64C(a, b, k, c) == IF k > 8 THEN <<>> ELSE Mul64Digit(a, b, k, Col64(a, b, k) + c)

\* a * b of two uint64 words, wrapping modulo 2^64.
Mul(a, b) == Mul64C(a, b, 1, 0)

\* The full product of two words, twice as wide (bits.Mul64 gives its two halves).
MulWide(a, b) == MulC(a, b, 1, 0, 2 * Len(a))

\* a >> k and a << k for 0 <= k; bits shifted out of the word are lost.
Shr(a, k) ==
    Word([i \in 1..Len(a) |->
            (At(a, i + (k \div 8)) \div Pow2(k % 8))
            + (At(a, i + (k \div 8) + 1) % Pow2(k % 8)) * Pow2(8 - (k % 8))], Len(a))

Shl(a, k) ==
    Word([i \in 1..Len(a) |->
            ((At(a, i - (k \div 8)) * Pow2(k % 8)) % 256)
            + (At(a, i - (k \div 8) - 1) \div Pow2(8 - (k % 8)))], Len(a))

\* Bitwise operations on bytes, one bit at a time.
RECURSIVE BitOp(_, _, _, _)
BitOp(f, x, y, n) ==
    IF n = 0 THEN 0
    ELSE f[x % 2][y % 2] + 2 * BitOp(f, x \div 2, y \div 2, n - 1)

XorBit == [x \in 0..1 |-> [y \in 0..1 |-> (x + y) % 2]]
OrBit == [x \in 0..1 |-> [y \in 0..1 |-> IF x + y > 0 THEN 1 ELSE 0]]
AndBit == [x \in 0..1 |-> [y \in 0..1 |-> x * y]]

Xor(a, b) == Word([i \in 1..Len(a) |-> BitOp(XorBit, a[i], b[i], 8)], Len(a))
Or(a, b) == Word([i \in 1..Len(a) |-> BitOp(OrBit, a[i], b[i], 8)], Len(a))
And(a, b) == Word([i \in 1..Len(a) |-> BitOp(AndBit, a[i], b[i], 8)], Len(a))

\* a < b and a >= b as unsigned numbers, comparing from the top byte down.
RECURSIVE LtFrom(_, _, _)
LtFrom(a, b, i) ==
    IF i = 0 THEN FALSE
    ELSE IF a[i] # b[i] THEN a[i] < b[i]
    ELSE LtFrom(a, b, i - 1)

Lt(a, b) == LtFrom(a, b, Len(a))
Geq(a, b) == ~Lt(a, b)

IsZero(a) == \A i \in 1..Len(a) : a[i] = 0

\* The bit of a word at position bit, counted from the least significant.
Bit(a, bit) == (a[(bit \div 8) + 1] \div Pow2(bit % 8)) % 2

\* a % b for b # 0, by binary long division from the top bit of a down:
\* the remainder is doubled and takes the next bit of a (rem + rem + bit),
\* and b is subtracted (+ ^b + 1) when it fits.  The remainder is kept one
\* byte wider than a, so that doubling it cannot wrap.
RECURSIVE ModBits(_, _, _, _)
ModBits(a, b, bit, rem) ==
    IF bit < 0 THEN rem
    ELSE LET r2 == AddC(rem, rem, 1, Bit(a, bit))
         IN IF Geq(r2, b) THEN ModBits(a, b, bit - 1, AddC(r2, Not(b), 1, 1))
            ELSE ModBits(a, b, bit - 1, r2)

ModLong(a, b) ==
    Truncate(ModBits(a, Extend(b, Len(a) + 1), 8 * Len(a) - 1, Zero(Len(a) + 1)), Len(a))

\* The same by long division a byte at a time, for a divisor d below 2^16.
RECURSIVE ModShort(_, _, _, _)
ModShort(a, d, i, rem) ==
    IF i = 0 THEN rem ELSE ModShort(a, d, i - 1, (rem * 256 + a[i]) % d)

Mod(a, b) ==
    IF \A i \in 3..Len(b) : b[i] = 0
    THEN FromNat(ModShort(a, b[1] + 256 * b[2], Len(a), 0), Len(a))
    ELSE ModLong(a, b)

\* The value of a word that is known to be small.
RECURSIVE ToNat(_, _)
ToNat(a, i) == IF i > Len(a) THEN 0 ELSE a[i] + 256 * ToNat(a, i + 1)

U64(v) == FromNat(v, 8)
U32(v) == FromNat(v, 4)

(***************************************************************************)
(* pcg32.go: constants                                                     *)
(***************************************************************************)

defaultState == FromBE(<<133, 60, 73, 230, 116, 143, 234, 155>>)   \* 0x853c49e6748fea9b
multiplier == FromBE(<<88, 81, 244, 45, 76, 149, 127, 45>>)      \* 0x5851f42d4c957f2d
incrementStep == FromBE(<<158, 55, 121, 185, 127, 74, 124, 21>>)    \* 0x9e3779b97f4a7c15

\* neg_mask is documented as "a mask to extract the lower 5 bits of a number".
neg_mask == 31

(***************************************************************************)
(* pcg32.go: the PCG32 generator.  A generator is a record                 *)
(* [state, increment] of two uint64 words.  Every method is an operator    *)
(* from the receiver (and the arguments) to a record holding the receiver  *)
(* after the call (g) and what the call returned.                          *)
(***************************************************************************)

NewPCG32 == [state |-> defaultState, increment |-> incrementStep]

\* Seed without the "| 1" that makes the increment odd.
Seed_EvenIncrement(p, state, sequence) ==
    LET inc == Shl(sequence, 1)
    IN [state |-> Add(Mul(Add(state, inc), multiplier), incrementStep),
        increment |-> inc]

\* func (p *PCG32) Seed(state, sequence uint64) *PCG32
Seed(p, state, sequence) ==
    LET inc == Or(Shl(sequence, 1), U64(1))
    IN [state |-> Add(Mul(Add(state, inc), multiplier), incrementStep),
        increment |-> inc]

\* The parts of Uint32's result, from the state before the step.
xorshifted(old) == Truncate(Shr(Xor(Shr(old, 18), old), 27), 4)
rot(old) == ToNat(Truncate(Shr(old, 59), 4), 1)

\* func (p *PCG32) Uint32() uint32
Uint32(p) ==
    LET old == p.state
    IN [g |-> [state |-> Add(Mul(old, multiplier), p.increment),
               increment |-> p.increment],
        ret |-> Or(Shr(xorshifted(old), rot(old)),
                   Shl(xorshifted(old), neg_mask - rot(old)))]

\* The rejection loop returning the accepted draw as it is, with no "% bound".
RECURSIVE Uintn32Loop_NoReduce(_, _, _, _)
Uintn32Loop_NoReduce(p, bound, threshold, draws) ==
    LET d == Uint32(p)
    IN IF Geq(d.ret, threshold)
       THEN [g |-> d.g, ret |-> d.ret, draws |-> draws + 1]
       ELSE Uintn32Loop_NoReduce(d.g, bound, threshold, draws + 1)

\* threshold := -bound without the reduction by bound.
Threshold_NoMod(bound) == Neg(bound)

\* threshold := -bound % bound, in the width of bound (Uintn32 and Uint64n).
Threshold(bound) == Mod(Neg(bound), bound)

\* The rejection loop of Uintn32: draw until a draw reaches the threshold.
\* draws counts the calls of Uint32 made so far.
RECURSIVE Uintn32Loop(_, _, _, _)
Uintn32Loop(p, bound, threshold, draws) ==
    LET d == Uint32(p)
    IN IF Geq(d.ret, threshold)
       THEN [g |-> d.g, ret |-> Mod(d.ret, bound), draws |-> draws + 1]
       ELSE Uintn32Loop(d.g, bound, threshold, draws + 1)

\* func (p *PCG32) Uintn32(bound uint32) uint32
Uintn32(p, bound) ==
    IF IsZero(bound) THEN [g |-> p, ret |-> U32(0), draws |-> 0]
    ELSE Uintn32Loop(p, bound, Threshold(bound), 0)

\* The loop of advancedLCG64 with add = mul * add in place of (mul + 1) * add.
RECURSIVE LCGLoop_AddTimesMul(_)
LCGLoop_AddTimesMul(s) ==
    IF IsZero(s.delta) THEN s
    ELSE LCGLoop_AddTimesMul([accMul |-> IF s.delta[1] % 2 # 0 THEN Mul(s.accMul, s.mul) ELSE s.accMul,
                  accAdd |-> IF s.delta[1] % 2 # 0 THEN Add(Mul(s.accAdd, s.mul), s.add)
                             ELSE s.accAdd,
                  add |-> Mul(s.mul, s.add),
                  mul |-> Mul(s.mul, s.mul),
                  delta |-> Shr(s.delta, 1),
                  iters |-> s.iters + 1])

\* The loop of advancedLCG64 on its local variables; iters counts its passes.
RECURSIVE LCGLoop(_)
LCGLoop(s) ==
    IF IsZero(s.delta) THEN s
    ELSE LCGLoop([accMul |-> IF s.delta[1] % 2 # 0 THEN Mul(s.accMul, s.mul) ELSE s.accMul,
                  accAdd |-> IF s.delta[1] % 2 # 0 THEN Add(Mul(s.accAdd, s.mul), s.add)
                             ELSE s.accAdd,
                  add |-> Mul(Add(s.mul, U64(1)), s.add),
                  mul |-> Mul(s.mul, s.mul),
                  delta |-> Shr(s.delta, 1),
                  iters |-> s.iters + 1])

LCGResult(state, delta, mul, add) ==
    LCGLoop([accMul |-> U64(1), accAdd |-> U64(0), add |-> add, mul |-> mul,
             delta |-> delta, iters |-> 0])

\* return accMul*state + accAdd, s being the locals the loop leaves.
LCGReturn(s, state) == Add(Mul(s.accMul, state), s.accAdd)

\* func (p *PCG32) advancedLCG64(state, delta, mul, add uint64) uint64
advancedLCG64(state, delta, mul, add) ==
    LCGReturn(LCGResult(state, delta, mul, add), state)

\* func (p *PCG32) Advance(delta uint64) *PCG32
Advance(p, delta) ==
    [state |-> advancedLCG64(p.state, delta, multiplier, incrementStep),
     increment |-> p.increment]

\* Retreat by the one's complement of delta, without the "+ 1".
Retreat_OnesComplement(p, delta) == Advance(p, Not(delta))

\* func (p *PCG32) Retreat(delta uint64) *PCG32
Retreat(p, delta) ==
    LET safeDelta == Add(Not(delta), U64(1))
    IN Advance(p, safeDelta)

\* The loop of Shuffle, i counting down to 1: the calls of swap, in order.
RECURSIVE ShuffleLoop(_, _, _, _)
ShuffleLoop(p, i, swaps, draws) ==
    IF i > 0
    THEN LET d == Uintn32(p, U32(i + 1))
         IN ShuffleLoop(d.g, i - 1, Append(swaps, <<i, ToNat(d.ret, 1)>>), draws + d.draws)
    ELSE [g |-> p, swaps |-> swaps, draws |-> draws, panic |-> FALSE]

\* func (p *PCG32) Shuffle(n int, swap func(i, j int))
Shuffle(p, n) ==
    IF n < 0 THEN [g |-> p, swaps |-> <<>>, draws |-> 0, panic |-> TRUE]
    ELSE IF n < 2 THEN [g |-> p, swaps |-> <<>>, draws |-> 0, panic |-> FALSE]
    ELSE ShuffleLoop(p, n - 1, <<>>, 0)

\* res[i] = res[j] alone: half of the swap.
Swap_Overwrite(res, i, j) == [res EXCEPT ![i + 1] = res[j + 1]]

\* res[i], res[j] = res[j], res[i] on a Go slice, which indexes from 0.
Swap(res, i, j) == [res EXCEPT ![i + 1] = res[j + 1], ![j + 1] = res[i + 1]]

RECURSIVE PermLoop(_, _, _, _, _)
PermLoop(p, n, i, res, draws) ==
    IF i < n
    THEN LET d == Uintn32(p, U32(i + 1))
         IN PermLoop(d.g, n, i + 1, Swap(res, i, ToNat(d.ret, 1)), draws + d.draws)
    ELSE [g |-> p, ret |-> res, draws |-> draws, panic |-> FALSE]

\* func (p *PCG32) Perm(n int) []int; make([]int, n) panics for n < 0.
Perm(p, n) ==
    IF n < 0 THEN [g |-> p, ret |-> <<>>, draws |-> 0, panic |-> TRUE]
    ELSE PermLoop(p, n, 1, [k \in 1..n |-> k - 1], 0)

\* buf[at], buf[at+1], ... = the first cnt bytes of val, least significant
\* first (binary.LittleEndian.PutUint32, and the byte(val >> (8 * k)) loop).
PutLE(buf, at, val, cnt) ==
    [k \in 1..Len(buf) |->
        IF k - 1 >= at /\ k - 1 < at + cnt THEN val[k - at] ELSE buf[k]]

\* Go panics on an index outside a slice: the cnt bytes from offset at lie
\* inside buf.
InRange(buf, at, cnt) == at >= 0 /\ at + cnt <= Len(buf)

\* The unrolled loop of Read: 8 bytes from two draws in each pass.
RECURSIVE Read32Main(_, _, _, _)
Read32Main(p, buf, i, draws) ==
    IF i <= Len(buf) - 8
    THEN LET val1 == Uint32(p)
             val2 == Uint32(val1.g)
         IN IF InRange(buf, i, 4) /\ InRange(buf, i + 4, 4)
            THEN Read32Main(val2.g, PutLE(PutLE(buf, i, val1.ret, 4), i + 4, val2.ret, 4),
                            i + 8, draws + 2)
            ELSE [g |-> val2.g, buf |-> buf, i |-> i, draws |-> draws + 2, panic |-> TRUE]
    ELSE [g |-> p, buf |-> buf, i |-> i, draws |-> draws, panic |-> FALSE]

\* The loop of Read over the remaining bytes, 4 from each draw.
RECURSIVE Read32Rest(_, _, _, _, _)
Read32Rest(p, buf, i, j, draws) ==
    IF j < Len(buf) - i
    THEN IF i + j < Len(buf)
         THEN LET val == Uint32(p)
                  cnt == IF Len(buf) - i - j < 4 THEN Len(buf) - i - j ELSE 4
              IN IF InRange(buf, i + j, cnt)
                 THEN Read32Rest(val.g, PutLE(buf, i + j, val.ret, cnt), i, j + 4, draws + 1)
                 ELSE [g |-> val.g, buf |-> buf, draws |-> draws + 1, panic |-> TRUE]
         ELSE Read32Rest(p, buf, i, j + 4, draws)
    ELSE [g |-> p, buf |-> buf, draws |-> draws, panic |-> FALSE]

\* func (p *PCG32) Read(buf []byte) (int, error)
Read32(p, buf) ==
    LET m == Read32Main(p, buf, 0, 0)
        r == IF ~m.panic /\ m.i < Len(buf) THEN Read32Rest(m.g, m.buf, m.i, 0, m.draws)
             ELSE [g |-> m.g, buf |-> m.buf, draws |-> m.draws, panic |-> m.panic]
    IN [g |-> r.g, buf |-> r.buf, n |-> Len(buf), err |-> "nil", draws |-> r.draws,
        panic |-> r.panic]

(***************************************************************************)
(* pcg64.go: the PCG64 generator, a record [hi, lo] of two PCG32           *)
(* generators.  NewPCG64 allocates both, and no method shares them.        *)
(***************************************************************************)

\* NewPCG64 seeding lo with the sequence 1.
NewPCG64_LoSequenceOne(seed1, seed2) ==
    [hi |-> Seed(NewPCG32, seed1, U64(0)), lo |-> Seed(NewPCG32, seed2, U64(1))]

\* func NewPCG64(seed1, seed2 uint64) *PCG64
NewPCG64(seed1, seed2) ==
    [hi |-> Seed(NewPCG32, seed1, U64(0)), lo |-> Seed(NewPCG32, seed2, U64(0))]

\* PCG64.Seed comparing seq1 and seq2 whole, without the mask.
Seed64_NoMask(p, seed1, seed2, seq1, seq2) ==
    [lo |-> Seed(p.lo, seed1, seq1),
     hi |-> Seed(p.hi, seed2, IF seq1 = seq2 THEN Not(seq2) ELSE seq2)]

\* func (p *PCG64) Seed(seed1, seed2, seq1, seq2 uint64) *PCG64
Seed64(p, seed1, seed2, seq1, seq2) ==
    LET mask == Shr(Not(U64(0)), 1)
        seq2a == IF And(seq1, mask) = And(seq2, mask) THEN Not(seq2) ELSE seq2
    IN [lo |-> Seed(p.lo, seed1, seq1), hi |-> Seed(p.hi, seed2, seq2a)]

\* Uint64 with lo's output in the upper half and hi's in the lower.
Uint64_HalvesSwapped(p) ==
    LET h == Uint32(p.hi)
        l == Uint32(p.lo)
    IN [g |-> [hi |-> h.g, lo |-> l.g],
        ret |-> Or(Shl(Extend(l.ret, 8), 32), Extend(h.ret, 8))]

\* func (p *PCG64) Uint64() uint64
Uint64(p) ==
    LET h == Uint32(p.hi)
        l == Uint32(p.lo)
    IN [g |-> [hi |-> h.g, lo |-> l.g],
        ret |-> Or(Shl(Extend(h.ret, 8), 32), Extend(l.ret, 8))]

RECURSIVE Uint64nLoop(_, _, _, _)
Uint64nLoop(p, bound, threshold, draws) ==
    LET d == Uint64(p)
    IN IF Geq(d.ret, threshold)
       THEN [g |-> d.g, ret |-> Mod(d.ret, bound), draws |-> draws + 1, panic |-> FALSE]
       ELSE Uint64nLoop(d.g, bound, threshold, draws + 1)

\* func (p *PCG64) Uint64n(bound uint64) uint64
\* -bound % bound is Go's integer division: with bound = 0 it panics
\* ("integer divide by zero") before any draw.
Uint64n(p, bound) ==
    IF IsZero(bound) THEN [g |-> p, ret |-> "none", draws |-> 0, panic |-> TRUE]
    ELSE Uint64nLoop(p, bound, Threshold(bound), 0)

\* func (p *PCG64) Advance(delta uint64) *PCG64
Advance64(p, delta) == [hi |-> Advance(p.hi, delta), lo |-> Advance(p.lo, delta)]

\* func (p *PCG64) Retreat(delta uint64) *PCG64
Retreat64(p, delta) ==
    LET safeDelta == Sub(Not(U64(0)), U64(1))
    IN Advance64(p, safeDelta)

\* Uint63 returning its draw as it is, without the mask.
Uint63Mask_None(d) == [g |-> d.g, ret |-> d.ret]

\* Uint63 after its draw d: the int64 is kept as its 64-bit pattern.
Uint63Mask(d) ==
    [g |-> d.g, ret |-> And(d.ret, FromBE(<<127, 255, 255, 255, 255, 255, 255, 255>>))]

\* func (p *PCG64) Uint63() int64
Uint63(p) == Uint63Mask(Uint64(p))

\* The loop of PCG64.Shuffle, i counting down to 1: the calls of swap, in
\* order.  Shuffle64Swap is the body of the loop after its draw d.
RECURSIVE Shuffle64Loop(_, _, _, _)
Shuffle64Swap(d, i, swaps, draws) ==
    IF d.panic THEN [g |-> d.g, swaps |-> swaps, draws |-> draws, panic |-> TRUE]
    ELSE Shuffle64Loop(d.g, i - 1, Append(swaps, <<i, ToNat(d.ret, 1)>>), draws + d.draws)
Shuffle64Loop(p, i, swaps, draws) ==
    IF i > 0 THEN Shuffle64Swap(Uint64n(p, U64(i + 1)), i, swaps, draws)
    ELSE [g |-> p, swaps |-> swaps, draws |-> draws, panic |-> FALSE]

\* func (p *PCG64) Shuffle(n int, swap func(i, j int)): no test of n comes
\* before the loop.
Shuffle64(p, n) == Shuffle64Loop(p, n - 1, <<>>, 0)

\* The swaps of Shuffle applied to res by the closure of Perm, in order.
RECURSIVE ApplySwaps(_, _, _)
ApplySwaps(res, swaps, k) ==
    IF k > Len(swaps) THEN res
    ELSE ApplySwaps(Swap(res, swaps[k][1], swaps[k][2]), swaps, k + 1)

\* Perm after its call of Shuffle, s.
Perm64Result(s, n) ==
    [g |-> s.g, ret |-> ApplySwaps([k \in 1..n |-> k - 1], s.swaps, 1),
     draws |-> s.draws, panic |-> s.panic]

\* func (p *PCG64) Perm(n int) []int; make([]int, n) panics for n < 0.
Perm64(p, n) ==
    IF n < 0 THEN [g |-> p, ret |-> <<>>, draws |-> 0, panic |-> TRUE]
    ELSE Perm64Result(Shuffle64(p, n), n)

\* The unrolled loop of PCG64.Read: 16 bytes from two draws in each pass.
\* Read64Put is the body of the loop after its draws val1 and val2.
RECURSIVE Read64Main(_, _, _, _)
\* The body of the unrolled loop writing val2 before val1.
Read64Put_DrawsSwapped(val1, val2, buf, i, draws) ==
    IF InRange(buf, i, 8) /\ InRange(buf, i + 8, 8)
    THEN Read64Main(val2.g, PutLE(PutLE(buf, i, val2.ret, 8), i + 8, val1.ret, 8),
                    i + 16, draws + 2)
    ELSE [g |-> val2.g, buf |-> buf, i |-> i, draws |-> draws + 2, panic |-> TRUE]
Read64Put(val1, val2, buf, i, draws) ==
    IF InRange(buf, i, 8) /\ InRange(buf, i + 8, 8)
    THEN Read64Main(val2.g, PutLE(PutLE(buf, i, val1.ret, 8), i + 8, val2.ret, 8),
                    i + 16, draws + 2)
    ELSE [g |-> val2.g, buf |-> buf, i |-> i, draws |-> draws + 2, panic |-> TRUE]
Read64Main(p, buf, i, draws) ==
    IF i <= Len(buf) - 16 THEN Read64Put(Uint64(p), Uint64(Uint64(p).g), buf, i, draws)
    ELSE [g |-> p, buf |-> buf, i |-> i, draws |-> draws, panic |-> FALSE]

\* The loop over the remaining bytes writing 8 bytes from every draw, without
\* the test (j+k) < len(remaining).
RECURSIVE Read64Rest_NoClamp(_, _, _, _, _)
Read64PutRest_NoClamp(val, cnt, buf, i, j, draws) ==
    IF InRange(buf, i + j, cnt)
    THEN Read64Rest_NoClamp(val.g, PutLE(buf, i + j, val.ret, cnt), i, j + 8, draws + 1)
    ELSE [g |-> val.g, buf |-> buf, draws |-> draws + 1, panic |-> TRUE]
Read64Rest_NoClamp(p, buf, i, j, draws) ==
    IF j < Len(buf) - i
    THEN IF i + j < Len(buf)
         THEN Read64PutRest_NoClamp(Uint64(p), 8, buf, i, j, draws)
         ELSE Read64Rest_NoClamp(p, buf, i, j + 8, draws)
    ELSE [g |-> p, buf |-> buf, draws |-> draws, panic |-> FALSE]

\* The loop of PCG64.Read over the remaining bytes, 8 from each draw.
\* Read64PutRest is the body of the loop after its draw val: it writes cnt bytes.
RECURSIVE Read64Rest(_, _, _, _, _)
Read64PutRest(val, cnt, buf, i, j, draws) ==
    IF InRange(buf, i + j, cnt)
    THEN Read64Rest(val.g, PutLE(buf, i + j, val.ret, cnt), i, j + 8, draws + 1)
    ELSE [g |-> val.g, buf |-> buf, draws |-> draws + 1, panic |-> TRUE]
Read64Rest(p, buf, i, j, draws) ==
    IF j < Len(buf) - i
    THEN IF i + j < Len(buf)
         THEN Read64PutRest(Uint64(p), Min(8, Len(buf) - i - j), buf, i, j, draws)
         ELSE Read64Rest(p, buf, i, j + 8, draws)
    ELSE [g |-> p, buf |-> buf, draws |-> draws, panic |-> FALSE]

\* Read after its unrolled loop, m: the remaining bytes, and what it returns.
Read64Return(r, n) ==
    [g |-> r.g, buf |-> r.buf, n |-> n, err |-> "nil", draws |-> r.draws, panic |-> r.panic]
Read64Remaining(m) ==
    IF ~m.panic /\ m.i < Len(m.buf)
    THEN Read64Return(Read64Rest(m.g, m.buf, m.i, 0, m.draws), Len(m.buf))
    ELSE Read64Return(m, Len(m.buf))

\* func (p *PCG64) Read(buf []byte) (int, error)
Read64(p, buf) == Read64Remaining(Read64Main(p, buf, 0, 0))

(***************************************************************************)
(* float64.  A finite float64 that is not negative is m * 2^e with m a     *)
(* word below or at 2^53; the values met here are far from the subnormal   *)
(* range and from overflow.                                                *)
(***************************************************************************)

\* The number of bits of x up to its highest set bit.
Width(x) ==
    IF IsZero(x) THEN 0
    ELSE 1 + CHOOSE b \in 0..(8 * Len(x) - 1) :
                 Bit(x, b) = 1 /\ \A c \in (b + 1)..(8 * Len(x) - 1) : Bit(x, c) = 0

\* q * 2^s + r rounded to a multiple of 2^s, to the nearest and to the even q
\* when r is the half.
RoundHalfEven(q, r, s) ==
    IF s > 0 /\ (Lt(Shl(U64(1), s - 1), r) \/ (r = Shl(U64(1), s - 1) /\ q[1] % 2 = 1))
    THEN [m |-> Add(q, U64(1)), e |-> s]
    ELSE [m |-> q, e |-> s]

\* float64(x) of a uint64 x: the 53 highest bits of x are kept.
ToFloat64Shift(x, s) == RoundHalfEven(Shr(x, s), Sub(x, Shl(Shr(x, s), s)), s)
ToFloat64(x) == ToFloat64Shift(x, IF Width(x) > 53 THEN Width(x) - 53 ELSE 0)

\* 1.0 / f, f being a power of two.
FloatRecip(f) == [m |-> U64(1), e |-> -(f.e + Width(f.m) - 1)]

\* a * b, b being a power of two: the product is exact.
FloatMul(a, b) == [m |-> Mul(a.m, b.m), e |-> a.e + b.e]

\* inv64 = 1.0 / float64(math.MaxUint64)
inv64 == FloatRecip(ToFloat64(Not(U64(0))))

\* 0xFFFFFFFFFFFFFF
mask56 == FromBE(<<0, 255, 255, 255, 255, 255, 255, 255>>)

\* Float64Full after its draw d; num is the integer it converts.
Float64FullResult(g, num) ==
    [g |-> g, ret |-> [value |-> FloatMul(ToFloat64(num), inv64), numerator |-> num]]

\* Float64Full converting its draw whole, without the mask.
Float64FullOf_NoMask(d) == Float64FullResult(d.g, d.ret)

Float64FullOf(d) == Float64FullResult(d.g, And(d.ret, mask56))

\* func (p *PCG64) Float64Full() float64
Float64Full(p) == Float64FullOf(Uint64(p))

\* The constants of next.
mulHi == FromBE(<<35, 96, 237, 5, 31, 198, 93, 164>>)       \* 2549297995355413924
mulLo == FromBE(<<67, 133, 223, 100, 159, 204, 246, 69>>)   \* 4865540595714422341
incHi == FromBE(<<88, 81, 244, 45, 76, 149, 127, 45>>)      \* 6364136223846793005
incLo == FromBE(<<20, 5, 123, 126, 247, 103, 129, 79>>)     \* 1442695040888963407

\* next after hi, lo := bits.Mul64(p.lo.state, mulLo): w is the 128-bit
\* product, c the carry of bits.Add64(lo, incLo, 0).
nextState(p, hi, lo) ==
    [g |-> [hi |-> [state |-> hi, increment |-> p.hi.increment],
            lo |-> [state |-> lo, increment |-> p.lo.increment]],
     hi |-> hi, lo |-> lo]
nextAdd(p, w, c) ==
    nextState(p,
              AddC(Add(SubSeq(w, 9, 16),
                       Add(Mul(p.hi.state, mulLo), Mul(p.lo.state, mulHi))),
                   incHi, 1, c),
              Add(SubSeq(w, 1, 8), incLo))
\* next dropping the carry of the low-word addition.
nextMul_NoCarry(p, w) == nextAdd(p, w, 0)

nextMul(p, w) == nextAdd(p, w, CarryOut(SubSeq(w, 1, 8), incLo, 1, 0))

\* func (p *PCG64) next() (uint64, uint64)
next(p) == nextMul(p, MulWide(p.lo.state, mulLo))

cheapMul == FromBE(<<218, 148, 32, 66, 228, 221, 88, 181>>) \* 0xda942042e4dd58b5

\* hi ^= hi >> k
XorShift(hi, k) == Xor(hi, Shr(hi, k))

\* Uint64nWithMCG after hi, lo := p.next(), n.
MCGOutput(n) ==
    [g |-> n.g,
     ret |-> Mul(XorShift(Mul(XorShift(n.hi, 22), cheapMul), 48), Or(n.lo, U64(1)))]

\* func (p *PCG64) Uint64nWithMCG() uint64
Uint64nWithMCG(p) == MCGOutput(next(p))

\* "pcg:"
magic == <<112, 99, 103, 58>>

\* beUint64 reading the 8 bytes least-significant byte first.
beUint64_LittleEndian(b, at) == Word([i \in 1..8 |-> b[at + i]], 8)

\* func beUint64(b []byte) uint64, on the 8 bytes of b from offset at
beUint64(b, at) == Word([i \in 1..8 |-> b[at + 9 - i]], 8)

\* func bePutUint64(b []byte, v uint64): b[0] = byte(v >> 56), ..., b[7] = byte(v)
bePutUint64(v) == Word([i \in 1..8 |-> Truncate(Shr(v, 64 - 8 * i), 1)[1]], 8)

\* func (p *PCG64) MarshalBinaryPCG64() ([]byte, error)
MarshalBinaryPCG64(p) == magic \o bePutUint64(p.hi.state) \o bePutUint64(p.lo.state)

\* The byte orders a build of the package can have (GOARCH).
ByteOrders == {"little", "big"}

\* func bePutUint64Unsafe(b []byte, v uint64): *(*uint64)(unsafe.Pointer(&b[0])) = v
\* stores v in the byte order of the machine.
bePutUint64Unsafe(v, order) == IF order = "big" THEN FromBE(v) ELSE v

\* func (p *PCG64) MarshalBinaryUnsafe() ([]byte, error)
\* The tag is loaded and stored as a uint32 in the same order, so it is copied.
MarshalBinaryUnsafe(p, order) ==
    magic \o bePutUint64Unsafe(p.hi.state, order) \o bePutUint64Unsafe(p.lo.state, order)

\* UnmarshalBinary without the comparison of the first 4 bytes with "pcg:".
UnmarshalBinary_NoTagCheck(p, b) ==
    IF Len(b) # 20
    THEN [g |-> p, err |-> "errUnmarshalPCG"]
    ELSE [g |-> [hi |-> [state |-> beUint64(b, 4), increment |-> p.hi.increment],
                 lo |-> [state |-> beUint64(b, 12), increment |-> p.lo.increment]],
          err |-> "nil"]

\* UnmarshalBinary that sets both increments as NewPCG64 does, to 1.
UnmarshalBinary_ResetIncrements(p, b) ==
    IF Len(b) # 20 \/ SubSeq(b, 1, 4) # magic
    THEN [g |-> p, err |-> "errUnmarshalPCG"]
    ELSE [g |-> [hi |-> [state |-> beUint64(b, 4), increment |-> U64(1)],
                 lo |-> [state |-> beUint64(b, 12), increment |-> U64(1)]],
          err |-> "nil"]

\* func (p *PCG64) UnmarshalBinary(b []byte) error
UnmarshalBinary(p, b) ==
    IF Len(b) # 20 \/ SubSeq(b, 1, 4) # magic
    THEN [g |-> p, err |-> "errUnmarshalPCG"]
    ELSE [g |-> [hi |-> [state |-> beUint64(b, 4), increment |-> p.hi.increment],
                 lo |-> [state |-> beUint64(b, 12), increment |-> p.lo.increment]],
          err |-> "nil"]

(***************************************************************************)
(* The state machines.  Spec32 is a program that holds one PCG32 (g) and   *)
(* calls its methods; Spec64 and SpecCodec are programs that hold one      *)
(* PCG64 (p) and the bytes of the record marshalled last (wire).  calls is *)
(* the log of the calls made so far: the method, its arguments, the        *)
(* receiver before and after, what it returned, the draws it took from the *)
(* generator and whether it panicked.  A caller may recover from a panic   *)
(* and go on: the receiver is as the panic left it.                        *)
(***************************************************************************)

VARIABLES g, p, wire, calls

vars == <<g, p, wire, calls>>

\* The longest run of calls explored by Spec32 and Spec64, and by SpecCodec.
MaxCalls == 2
MaxCodecCalls == 3
\* Shuffle and Perm are called with n up to MaxN, Read with buffers up to MaxBuf.
MaxN == 3
MaxBuf == 9
\* PCG64.Read with buffers up to MaxBuf64; the longest run of calls explored by
\* SpecPerm and SpecRead, and by SpecDraw64.
MaxBuf64 == 17
MaxBulkCalls == 2
MaxDrawCalls == 3

TopBit == FromBE(<<128, 0, 0, 0, 0, 0, 0, 0>>)     \* 2^63
AllOnes == Not(U64(0))                             \* 2^64 - 1

Seeds == {U64(42), AllOnes}
Sequences == {U64(54), TopBit}
Deltas == {U64(0), U64(3), TopBit}
Bounds32 == {U32(0), U32(1), U32(10), FromBE(<<128, 0, 0, 1>>)}
Bounds64 == {U64(0), U64(1), U64(10), Add(TopBit, U64(1))}
\* (seed1, seed2) of NewPCG64 and PCG64.Seed, and (seq1, seq2) of PCG64.Seed:
\* equal sequences, sequences that differ in the top bit alone, unrelated ones.
SeedPairs == {<<U64(12345), U64(67890)>>, <<U64(7), U64(7)>>}
SequencePairs == {<<U64(5), U64(5)>>, <<U64(5), Add(TopBit, U64(5))>>, <<U64(18), U64(27)>>}

Call(op, arg, pre, post, ret, draws, panic) ==
    [op |-> op, arg |-> arg, pre |-> pre, post |-> post, ret |-> ret,
     draws |-> draws, panic |-> panic]

\* A call on the PCG32.
Log32(op, arg, post, ret, draws, panic) ==
    /\ g' = post
    /\ calls' = Append(calls, Call(op, arg, g, post, ret, draws, panic))
    /\ UNCHANGED <<p, wire>>

DoSeed ==
    \E state \in Seeds, sequence \in Sequences :
        \E r \in {Seed(g, state, sequence)} :
            Log32("Seed", <<state, sequence>>, r, "none", 0, FALSE)

DoUint32 ==
    \E r \in {Uint32(g)} : Log32("Uint32", <<>>, r.g, r.ret, 1, FALSE)

DoUintn32 ==
    \E bound \in Bounds32 :
        \E r \in {Uintn32(g, bound)} : Log32("Uintn32", <<bound>>, r.g, r.ret, r.draws, FALSE)

DoAdvance ==
    \E delta \in Deltas :
        \E r \in {Advance(g, delta)} : Log32("Advance", <<delta>>, r, "none", 0, FALSE)

DoRetreat ==
    \E delta \in Deltas :
        \E r \in {Retreat(g, delta)} : Log32("Retreat", <<delta>>, r, "none", 0, FALSE)

DoShuffle ==
    \E n \in -1..MaxN :
        \E r \in {Shuffle(g, n)} :
            Log32("Shuffle", <<n>>, r.g, IF r.panic THEN "none" ELSE r.swaps, r.draws, r.panic)

DoPerm ==
    \E n \in -1..MaxN :
        \E r \in {Perm(g, n)} :
            Log32("Perm", <<n>>, r.g, IF r.panic THEN "none" ELSE r.ret, r.draws, r.panic)

\* A buffer of n bytes that Read has not written yet: -1 is no byte.
Buffer(n) == [k \in 1..n |-> -1]

DoRead ==
    \E n \in 0..MaxBuf :
        \E r \in {Read32(g, Buffer(n))} :
            Log32("Read", <<n>>, r.g,
                  IF r.panic THEN "none" ELSE [n |-> r.n, err |-> r.err, buf |-> r.buf],
                  r.draws, r.panic)

\* A call on the PCG64 that leaves the marshalled record alone.
Log64(op, arg, post, ret, draws, panic) ==
    /\ p' = post
    /\ calls' = Append(calls, Call(op, arg, p, post, ret, draws, panic))
    /\ UNCHANGED <<g, wire>>

DoSeed64 ==
    \E seeds \in SeedPairs, seqs \in SequencePairs :
        \E r \in {Seed64(p, seeds[1], seeds[2], seqs[1], seqs[2])} :
            Log64("Seed", <<seeds[1], seeds[2], seqs[1], seqs[2]>>, r, "none", 0, FALSE)

DoUint64 ==
    \E r \in {Uint64(p)} : Log64("Uint64", <<>>, r.g, r.ret, 1, FALSE)

DoUint64n ==
    \E bound \in Bounds64 :
        \E r \in {Uint64n(p, bound)} : Log64("Uint64n", <<bound>>, r.g, r.ret, r.draws, r.panic)

DoAdvance64 ==
    \E delta \in Deltas :
        \E r \in {Advance64(p, delta)} : Log64("Advance", <<delta>>, r, "none", 0, FALSE)

DoRetreat64 ==
    \E delta \in Deltas :
        \E r \in {Retreat64(p, delta)} : Log64("Retreat", <<delta>>, r, "none", 0, FALSE)

\* A marshalling call: the program keeps the bytes it returned.
LogMarshal(op, arg, ret) ==
    /\ wire' = ret
    /\ calls' = Append(calls, Call(op, arg, p, p, ret, 0, FALSE))
    /\ UNCHANGED <<g, p>>

DoMarshalBinaryPCG64 ==
    \E b \in {MarshalBinaryPCG64(p)} : LogMarshal("MarshalBinaryPCG64", <<>>, b)

DoMarshalBinaryUnsafe ==
    \E order \in ByteOrders :
        \E b \in {MarshalBinaryUnsafe(p, order)} :
            LogMarshal("MarshalBinaryUnsafe", <<order>>, b)

\* What a program may hand to UnmarshalBinary: the record it kept, and the
\* record cut short, extended, or with its tag damaged.
Inputs(b) ==
    {b, b \o <<0>>}
    \cup (IF Len(b) > 0 THEN {SubSeq(b, 1, Len(b) - 1), [b EXCEPT ![1] = 80]} ELSE {})

DoUnmarshalBinary ==
    \E b \in Inputs(wire) :
        \E r \in {UnmarshalBinary(p, b)} : Log64("UnmarshalBinary", <<b>>, r.g, r.err, 0, FALSE)

DoUint63 ==
    \E r \in {Uint63(p)} : Log64("Uint63", <<>>, r.g, r.ret, 1, FALSE)

DoShuffle64 ==
    \E n \in -1..MaxN :
        \E r \in {Shuffle64(p, n)} :
            Log64("Shuffle", <<n>>, r.g, IF r.panic THEN "none" ELSE r.swaps, r.draws, r.panic)

DoPerm64 ==
    \E n \in -1..MaxN :
        \E r \in {Perm64(p, n)} :
            Log64("Perm", <<n>>, r.g, IF r.panic THEN "none" ELSE r.ret, r.draws, r.panic)

\* The buffers handed to PCG64.Read: none, one byte, and the lengths around
\* one and two draws.
BufLens64 == {0, 1, 8, 9, 2 * MaxBuf64 - 18, MaxBuf64}

DoRead64 ==
    \E n \in BufLens64 :
        \E r \in {Read64(p, Buffer(n))} :
            Log64("Read", <<n>>, r.g,
                  IF r.panic THEN "none" ELSE [n |-> r.n, err |-> r.err, buf |-> r.buf],
                  r.draws, r.panic)

Donext ==
    \E r \in {next(p)} : Log64("next", <<>>, r.g, <<r.hi, r.lo>>, 0, FALSE)

DoUint64nWithMCG ==
    \E r \in {Uint64nWithMCG(p)} : Log64("Uint64nWithMCG", <<>>, r.g, r.ret, 0, FALSE)

\* The program of Spec32 starts with a PCG32 from NewPCG32, that of Spec64 and
\* SpecCodec with a PCG64 from NewPCG64.
Init32 ==
    /\ g = NewPCG32
    /\ p = NewPCG64(U64(0), U64(0))
    /\ wire = <<>>
    /\ calls = <<>>

Init64 ==
    /\ g = NewPCG32
    /\ \E seeds \in SeedPairs : p = NewPCG64(seeds[1], seeds[2])
    /\ wire = <<>>
    /\ calls = <<>>

\* Fewer than n calls were made.
More(n) == Len(calls) < n

Next32 ==
    \/ More(MaxCalls) /\ DoSeed
    \/ More(MaxCalls) /\ DoUint32
    \/ More(MaxCalls) /\ DoUintn32
    \/ More(MaxCalls) /\ DoAdvance
    \/ More(MaxCalls) /\ DoRetreat
    \/ More(MaxCalls) /\ DoShuffle
    \/ More(MaxCalls) /\ DoPerm
    \/ More(MaxCalls) /\ DoRead

Spec32 == Init32 /\ [][Next32]_vars

Next64 ==
    \/ More(MaxCalls) /\ DoSeed64
    \/ More(MaxCalls) /\ DoUint64
    \/ More(MaxCalls) /\ DoUint64n
    \/ More(MaxCalls) /\ DoAdvance64
    \/ More(MaxCalls) /\ DoRetreat64
    \/ More(MaxCalls) /\ DoMarshalBinaryPCG64
    \/ More(MaxCalls) /\ DoMarshalBinaryUnsafe
    \/ More(MaxCalls) /\ DoUnmarshalBinary

Spec64 == Init64 /\ [][Next64]_vars

NextCodec ==
    \/ More(MaxCodecCalls) /\ DoSeed64
    \/ More(MaxCodecCalls) /\ DoUint64
    \/ More(MaxCodecCalls) /\ DoMarshalBinaryPCG64
    \/ More(MaxCodecCalls) /\ DoMarshalBinaryUnsafe
    \/ More(MaxCodecCalls) /\ DoUnmarshalBinary

SpecCodec == Init64 /\ [][NextCodec]_vars

\* Programs that hold a PCG32 and a PCG64 side by side.  SpecPerm shuffles
\* and permutes with both, SpecRead fills buffers from both; a plain draw from
\* either moves it to another state in between.
InitBoth ==
    /\ g = NewPCG32
    /\ \E seeds \in SeedPairs : p = NewPCG64(seeds[1], seeds[2])
    /\ wire = <<>>
    /\ calls = <<>>

NextPerm ==
    \/ More(MaxBulkCalls) /\ DoUint32
    \/ More(MaxBulkCalls) /\ DoShuffle
    \/ More(MaxBulkCalls) /\ DoPerm
    \/ More(MaxBulkCalls) /\ DoUint64
    \/ More(MaxBulkCalls) /\ DoShuffle64
    \/ More(MaxBulkCalls) /\ DoPerm64

SpecPerm == InitBoth /\ [][NextPerm]_vars

NextRead ==
    \/ More(MaxBulkCalls) /\ DoUint32
    \/ More(MaxBulkCalls) /\ DoRead
    \/ More(MaxBulkCalls) /\ DoUint64
    \/ More(MaxBulkCalls) /\ DoRead64

SpecRead == InitBoth /\ [][NextRead]_vars

\* A program that holds a PCG64 and draws single values from it.
NextDraw64 ==
    \/ More(MaxDrawCalls) /\ DoSeed64
    \/ More(MaxDrawCalls) /\ DoUint64
    \/ More(MaxDrawCalls) /\ DoUint63
    \/ More(MaxDrawCalls) /\ Donext
    \/ More(MaxDrawCalls) /\ DoUint64nWithMCG

SpecDraw64 == Init64 /\ [][NextDraw64]_vars

(***************************************************************************)
(* The rejection loops of Uintn32 and Uint64n, one pass of the for loop    *)
(* per step.  A call whose loop is running is the last record of the log,  *)
(* under the name of its loop: ret holds the local threshold, post the     *)
(* generator after the draws made so far, draws their count.  The pass     *)
(* that accepts a draw turns the record into the record of the finished    *)
(* call.                                                                   *)
(***************************************************************************)
MaxSampleCalls == 2
MaxDraws == 8

LoopOps == {"Uintn32.for", "Uint64n.for"}

Looping == calls # <<>> /\ calls[Len(calls)].op \in LoopOps

LoopOf(op) == calls # <<>> /\ calls[Len(calls)].op = op

\* One pass of a loop on its frame c, r being the draw of the pass.
LoopPass(c, op, r) ==
    IF Geq(r.ret, c.ret)
    THEN Call(op, c.arg, c.pre, r.g, Mod(r.ret, c.arg[1]), c.draws + 1, FALSE)
    ELSE Call(c.op, c.arg, c.pre, r.g, c.ret, c.draws + 1, FALSE)

\* Uintn32 up to the head of its loop.
CallUintn32 ==
    /\ ~Looping
    /\ \E bound \in Bounds32 :
         IF IsZero(bound)
         THEN Log32("Uintn32", <<bound>>, g, U32(0), 0, FALSE)
         ELSE Log32("Uintn32.for", <<bound>>, g, Threshold(bound), 0, FALSE)

\* r := p.Uint32(); if r >= threshold { return r % bound }
LoopUintn32 ==
    /\ LoopOf("Uintn32.for")
    /\ calls[Len(calls)].draws < MaxDraws
    /\ \E r \in {Uint32(g)} :
         /\ g' = r.g
         /\ calls' = [calls EXCEPT ![Len(calls)] = LoopPass(@, "Uintn32", r)]
    /\ UNCHANGED <<p, wire>>

\* Uint64n up to the head of its loop; -bound % bound panics on bound = 0,
\* and the call returns no word.
CallUint64n ==
    /\ ~Looping
    /\ \E bound \in Bounds64 :
         IF IsZero(bound)
         THEN Log64("Uint64n", <<bound>>, p, <<>>, 0, TRUE)
         ELSE Log64("Uint64n.for", <<bound>>, p, Threshold(bound), 0, FALSE)

\* r := p.Uint64(); if r >= threshold { return r % bound }
LoopUint64n ==
    /\ LoopOf("Uint64n.for")
    /\ calls[Len(calls)].draws < MaxDraws
    /\ \E r \in {Uint64(p)} :
         /\ p' = r.g
         /\ calls' = [calls EXCEPT ![Len(calls)] = LoopPass(@, "Uint64n", r)]
    /\ UNCHANGED <<g, wire>>

\* A program that holds a PCG32 and a PCG64 and samples below bounds.
NextSample ==
    \/ More(MaxSampleCalls) /\ CallUintn32
    \/ LoopUintn32
    \/ More(MaxSampleCalls) /\ CallUint64n
    \/ LoopUint64n

SpecSample == InitBoth /\ [][NextSample]_vars

\* The guard of a pass: ENABLED <<LoopUintn32>>_vars and
\* ENABLED <<LoopUint64n>>_vars, a pass always adding one to draws.
CanPass(op) == LoopOf(op) /\ calls[Len(calls)].draws < MaxDraws

\* A running loop is not suspended for ever, its next pass is taken:
\* WF_vars(LoopUintn32) /\ WF_vars(LoopUint64n), with ENABLED written out.
SpecSampleFair ==
    /\ SpecSample
    /\ []<>(~CanPass("Uintn32.for")) \/ []<><<LoopUintn32>>_vars
    /\ []<>(~CanPass("Uint64n.for")) \/ []<><<LoopUint64n>>_vars

(***************************************************************************)
(* advancedLCG64 as a function of its four arguments: the receiver is not  *)
(* read.  ret is the result together with the passes of the loop.          *)
(***************************************************************************)
MaxLCGCalls == 1
MaxDelta == 5

LCGStates == {U64(1), defaultState, AllOnes}
LCGDeltas == {U64(d) : d \in 0..MaxDelta} \cup {AllOnes}
LCGMuls == {multiplier, U64(2), U64(1)}
LCGAdds == {incrementStep, U64(0)}

DoadvancedLCG64 ==
    \E state \in LCGStates, delta \in LCGDeltas, mul \in LCGMuls, add \in LCGAdds :
        Log32("advancedLCG64", <<state, delta, mul, add>>, g,
              [value |-> advancedLCG64(state, delta, mul, add),
               iters |-> LCGResult(state, delta, mul, add).iters], 0, FALSE)

NextLCG == More(MaxLCGCalls) /\ DoadvancedLCG64

SpecLCG == Init32 /\ [][NextLCG]_vars

(***************************************************************************)
(* The loops of PCG32.Shuffle and PCG64.Shuffle, one pass per step, with n *)
(* and i in the width of Go's int on a 64-bit platform (two's complement   *)
(* in 8 bytes).  A call whose loop is running is the last record of the    *)
(* log under the name "Shuffle.for": ret holds the calls of swap made so   *)
(* far, each with the bound its draw was given; the loop is at             *)
(* i = n - 1 - Len(ret).                                                   *)
(***************************************************************************)
MaxShuffleCalls == 2
MaxPasses == 3

\* A small Go int as a word.
GoInt(v) == IF v < 0 THEN Neg(U64(-v)) ELSE U64(v)

Negative(w) == w[Len(w)] >= 128
Positive(w) == ~Negative(w) /\ ~IsZero(w)

\* The sizes handed to Shuffle: the ones around the tests of n, and the
\* first whose loop meets i + 1 = 2^32.
ShuffleNs == {GoInt(n) : n \in {-1, 0, 1, 2, MaxN}} \cup {Add(Shl(U64(1), 32), U64(1))}

ShuffleRunning == calls # <<>> /\ calls[Len(calls)].op = "Shuffle.for"

\* The running loop is the one of PCG64.Shuffle.
ShuffleOf64 == "hi" \in DOMAIN calls[Len(calls)].pre

\* i of the running loop c.
ShuffleAt(c) == Sub(Sub(c.arg[1], U64(1)), U64(Len(c.ret)))

\* swap(i, j) after the draw d made with bound, then i-- and the test i > 0.
ShufflePass(c, i, bound, d) ==
    IF d.panic
    THEN Call("Shuffle", c.arg, c.pre, d.g, c.ret, c.draws + d.draws, TRUE)
    ELSE Call(IF Positive(Sub(i, U64(1))) THEN "Shuffle.for" ELSE "Shuffle",
              c.arg, c.pre, d.g,
              Append(c.ret, [i |-> i, j |-> Extend(d.ret, 8), bound |-> bound]),
              c.draws + d.draws, FALSE)

\* PCG32.Shuffle up to the head of its loop.
CallShuffle ==
    /\ ~ShuffleRunning
    /\ \E n \in ShuffleNs :
         IF Negative(n) THEN Log32("Shuffle", <<n>>, g, <<>>, 0, TRUE)
         ELSE IF Lt(n, U64(2)) THEN Log32("Shuffle", <<n>>, g, <<>>, 0, FALSE)
         ELSE Log32("Shuffle.for", <<n>>, g, <<>>, 0, FALSE)

\* j := int(p.Uintn32(uint32(i + 1))); swap(i, j)
PassShuffle ==
    /\ ShuffleRunning
    /\ ~ShuffleOf64
    /\ Len(calls[Len(calls)].ret) < MaxPasses
    /\ \E i \in {ShuffleAt(calls[Len(calls)])} :
         \E bound \in {Truncate(Add(i, U64(1)), 4)} :
            \E d \in {Uintn32(g, bound)} :
                /\ g' = d.g
                /\ calls' = [calls EXCEPT ![Len(calls)] =
                                ShufflePass(@, i, bound, [g |-> d.g, ret |-> d.ret,
                                                          draws |-> d.draws, panic |-> FALSE])]
    /\ UNCHANGED <<p, wire>>

\* PCG64.Shuffle up to the head of its loop: for i := n - 1; i > 0.
CallShuffle64 ==
    /\ ~ShuffleRunning
    /\ \E n \in ShuffleNs :
         IF Positive(Sub(n, U64(1))) THEN Log64("Shuffle.for", <<n>>, p, <<>>, 0, FALSE)
         ELSE Log64("Shuffle", <<n>>, p, <<>>, 0, FALSE)

\* j := int(p.Uint64n(uint64(i + 1))); swap(i, j)
PassShuffle64 ==
    /\ ShuffleRunning
    /\ ShuffleOf64
    /\ Len(calls[Len(calls)].ret) < MaxPasses
    /\ \E i \in {ShuffleAt(calls[Len(calls)])} :
         \E bound \in {Add(i, U64(1))} :
            \E d \in {Uint64n(p, bound)} :
                /\ p' = d.g
                /\ calls' = [calls EXCEPT ![Len(calls)] = ShufflePass(@, i, bound, d)]
    /\ UNCHANGED <<g, wire>>

\* A program that holds a PCG32 and a PCG64 and shuffles with them.
NextShuffle ==
    \/ More(MaxShuffleCalls) /\ CallShuffle
    \/ PassShuffle
    \/ More(MaxShuffleCalls) /\ CallShuffle64
    \/ PassShuffle64

SpecShuffle == InitBoth /\ [][NextShuffle]_vars

\* A program that builds a PCG64 with NewPCG64 and never seeds it again.
MaxTwinCalls == 2

NextTwin ==
    \/ More(MaxTwinCalls) /\ DoUint64
    \/ More(MaxTwinCalls) /\ DoUint63
    \/ More(MaxTwinCalls) /\ DoUint64n
    \/ More(MaxTwinCalls) /\ DoAdvance64
    \/ More(MaxTwinCalls) /\ DoRetreat64

SpecTwin == Init64 /\ [][NextTwin]_vars

\* A program that holds a PCG64 and draws floats from it.
MaxFloatCalls == 2

DoFloat64Full ==
    \E r \in {Float64Full(p)} : Log64("Float64Full", <<>>, r.g, r.ret, 1, FALSE)

NextFloat ==
    \/ More(MaxFloatCalls) /\ DoSeed64
    \/ More(MaxFloatCalls) /\ DoUint64
    \/ More(MaxFloatCalls) /\ DoFloat64Full

SpecFloat == Init64 /\ [][NextFloat]_vars

(***************************************************************************)
(* The claims.  Each is stated over the log of calls: what a call did is   *)
(* read from its record (pre, arg, post, ret).                             *)
(***************************************************************************)

Calls == 1..Len(calls)

\* delta < 256, so that delta single steps can be taken one by one.
Small(delta) == \A i \in 2..8 : delta[i] = 0

\* The generator after n calls of Uint32.
RECURSIVE StepN(_, _)
StepN(q, n) == IF n = 0 THEN q ELSE StepN(Uint32(q).g, n - 1)

\* C1: the state after Advance(delta) is the state after delta sequential
\* Uint32 calls from the same generator, whether it came from NewPCG32 or was
\* seeded by Seed.
C1_AdvanceEqualsSteps ==
    \A k \in Calls :
        (calls[k].op = "Advance" /\ Small(calls[k].arg[1]))
            => calls[k].post = StepN(calls[k].pre, ToNat(calls[k].arg[1], 1))

\* C2: on a PCG64, Advance(d) followed by Retreat(d) restores hi.state and
\* lo.state exactly.
C2_Retreat64Restores ==
    \A k \in Calls :
        (k > 1 /\ calls[k].op = "Retreat" /\ calls[k - 1].op = "Advance"
               /\ calls[k].arg = calls[k - 1].arg)
            => /\ calls[k].post.hi.state = calls[k - 1].pre.hi.state
               /\ calls[k].post.lo.state = calls[k - 1].pre.lo.state

\* C3: on a PCG32, Advance(d) followed by Retreat(d) restores the generator
\* exactly, for every d, 0 and 2^63 included; that Retreat(d) is Advance of
\* the two's complement of d.
C3_AdvanceRetreatRestores ==
    \A k \in Calls :
        (k > 1 /\ calls[k].op = "Retreat" /\ calls[k - 1].op = "Advance"
               /\ calls[k].arg = calls[k - 1].arg)
            => /\ calls[k].post = calls[k - 1].pre
               /\ calls[k].post = Advance(calls[k].pre, Neg(calls[k].arg[1]))

\* Advance(2^63) moved the state and Retreat(2^63) followed it.
C3_Witness ==
    \E k \in Calls :
        /\ k > 1
        /\ calls[k].op = "Retreat" /\ calls[k].arg = <<TopBit>>
        /\ calls[k - 1].op = "Advance" /\ calls[k - 1].arg = <<TopBit>>
        /\ calls[k - 1].post.state # calls[k - 1].pre.state

\* C4: after Seed(seed, sequence), increment = (sequence << 1) | 1 and
\* state = (seed + increment) * multiplier + increment, modulo 2^64.
C4_SeedFormula ==
    \A k \in Calls :
        calls[k].op = "Seed"
            => LET inc == Or(Shl(calls[k].arg[2], 1), U64(1))
               IN /\ calls[k].post.increment = inc
                  /\ calls[k].post.state
                        = Add(Mul(Add(calls[k].arg[1], inc), multiplier), inc)

\* x rotated right by r bits as a 32-bit word:
\* (x >> r) | (x << ((32 - r) & 31)).
RotateRight32(x, r) == Or(Shr(x, r), Shl(x, (32 - r) % 32))

\* C5: Uint32 sets state to old * multiplier + increment and returns
\* xorshifted rotated right by rot as a true 32-bit rotate.
C5_Uint32RotatesRight ==
    \A k \in Calls :
        calls[k].op = "Uint32"
            => /\ calls[k].post.state
                    = Add(Mul(calls[k].pre.state, multiplier), calls[k].pre.increment)
               /\ calls[k].ret
                    = RotateRight32(xorshifted(calls[k].pre.state), rot(calls[k].pre.state))

Odd(w) == w[1] % 2 = 1

\* C6: in every reachable state of a PCG32 the increment is odd, and no call
\* other than Seed changes it.
C6_IncrementOddOnlySeedChanges ==
    /\ Odd(g.increment)
    /\ \A k \in Calls :
        /\ Odd(calls[k].post.increment)
        /\ calls[k].op # "Seed" => calls[k].post.increment = calls[k].pre.increment

\* Seed changed the increment, and a Read that drew from the generator followed.
C6_Witness ==
    /\ Len(calls) = 2
    /\ calls[1].op = "Seed" /\ calls[1].post.increment # calls[1].pre.increment
    /\ calls[2].op = "Read" /\ calls[2].draws > 0
    /\ calls[2].post.state # calls[2].pre.state

\* C7: PCG64.Uint64n(0) returns 0 and does not fail, and for every bound > 0
\* the result is in [0, bound).
C7_Uint64nPolicy ==
    \A k \in Calls :
        calls[k].op = "Uint64n"
            => /\ ~calls[k].panic
               /\ IF IsZero(calls[k].arg[1]) THEN calls[k].ret = U64(0)
                  ELSE Lt(calls[k].ret, calls[k].arg[1])

\* C8: Uintn32(bound) returns r with 0 <= r < bound for every bound > 0, and
\* exactly 0 for bound = 0.
C8_Uintn32InRange ==
    \A k \in Calls :
        calls[k].op = "Uintn32"
            => IF IsZero(calls[k].arg[1]) THEN calls[k].ret = U32(0)
               ELSE Lt(calls[k].ret, calls[k].arg[1])

\* Uintn32(2^31 + 1) rejected a draw before it accepted one, and what it
\* returned is the accepted draw reduced: not 0, and below the bound.
C8_Witness ==
    \E k \in Calls :
        /\ calls[k].op = "Uintn32" /\ calls[k].arg[1] = FromBE(<<128, 0, 0, 1>>)
        /\ calls[k].draws > 1
        /\ ~IsZero(calls[k].ret)
        /\ calls[k].post.state # calls[k].pre.state

\* C9: MarshalBinaryUnsafe produces the record MarshalBinaryPCG64 produces,
\* for every generator state.
C9_EncodersAgree ==
    \A k \in Calls :
        calls[k].op = "MarshalBinaryUnsafe"
            => calls[k].ret = MarshalBinaryPCG64(calls[k].pre)

\* Call k is UnmarshalBinary of the record that call j, MarshalBinaryPCG64,
\* returned.
RoundTrip(j, k) ==
    /\ j < k
    /\ calls[j].op = "MarshalBinaryPCG64"
    /\ calls[k].op = "UnmarshalBinary"
    /\ calls[k].arg[1] = calls[j].ret

\* C10, as claimed: UnmarshalBinary of the record of MarshalBinaryPCG64(s)
\* succeeds and yields a generator equal to s.
C10_RoundTripEqual ==
    \A j \in Calls, k \in Calls :
        RoundTrip(j, k) => calls[k].ret = "nil" /\ calls[k].post = calls[j].pre

\* C10, amended: UnmarshalBinary of the record of MarshalBinaryPCG64(s)
\* succeeds and yields a generator whose hi.state and lo.state are those of s;
\* its increments are those the receiver had before the call.
C10_RoundTripStateWords ==
    \A j \in Calls, k \in Calls :
        RoundTrip(j, k)
            => /\ calls[k].ret = "nil"
               /\ calls[k].post.hi.state = calls[j].pre.hi.state
               /\ calls[k].post.lo.state = calls[j].pre.lo.state
               /\ calls[k].post.hi.increment = calls[k].pre.hi.increment
               /\ calls[k].post.lo.increment = calls[k].pre.lo.increment

\* A record was marshalled, the generator moved on, and UnmarshalBinary of
\* the record brought both state words back.
C10_Witness ==
    \E j \in Calls, k \in Calls :
        /\ RoundTrip(j, k)
        /\ calls[k].pre.hi.state # calls[j].pre.hi.state
        /\ calls[k].pre.lo.state # calls[j].pre.lo.state
        /\ calls[k].post.hi.state = calls[j].pre.hi.state

\* The input of UnmarshalBinary is 20 bytes long and starts with the tag.
WellFormed(b) == Len(b) = 20 /\ SubSeq(b, 1, 4) = magic

\* C11: UnmarshalBinary returns errUnmarshalPCG for every input whose length
\* is not 20 or whose first 4 bytes are not the tag, and then leaves both
\* states and both increments as they were; for every other input it
\* returns nil.
C11_UnmarshalRejects ==
    \A k \in Calls :
        calls[k].op = "UnmarshalBinary"
            => IF WellFormed(calls[k].arg[1])
               THEN calls[k].ret = "nil"
               ELSE calls[k].ret = "errUnmarshalPCG" /\ calls[k].post = calls[k].pre

\* A 20-byte input with a damaged tag was rejected, by a generator whose
\* states are not the ones the input holds.
C11_Witness ==
    \E k \in Calls :
        /\ calls[k].op = "UnmarshalBinary"
        /\ Len(calls[k].arg[1]) = 20 /\ SubSeq(calls[k].arg[1], 1, 4) # magic
        /\ calls[k].ret = "errUnmarshalPCG"
        /\ calls[k].pre.hi.state # beUint64(calls[k].arg[1], 4)
        /\ calls[k].pre.lo.state # beUint64(calls[k].arg[1], 12)

SameIncrements(a, b) ==
    a.hi.increment = b.hi.increment /\ a.lo.increment = b.lo.increment

\* C12: a successful UnmarshalBinary changes hi.state and lo.state alone: both
\* increments stay what they were, so the restored generator follows the
\* serialized one (is the same generator after the next Uint64) only if the
\* receiver had the increments of the serialized one.
C12_UnmarshalKeepsIncrements ==
    /\ \A k \in Calls :
        (calls[k].op = "UnmarshalBinary" /\ calls[k].ret = "nil")
            => /\ SameIncrements(calls[k].post, calls[k].pre)
               /\ calls[k].post.hi.state = beUint64(calls[k].arg[1], 4)
               /\ calls[k].post.lo.state = beUint64(calls[k].arg[1], 12)
    /\ \A j \in Calls, k \in Calls :
        RoundTrip(j, k)
            => (Uint64(calls[k].post).g = Uint64(calls[j].pre).g
                    <=> SameIncrements(calls[k].pre, calls[j].pre))

\* A record was restored into a generator that had been seeded with other
\* sequences since: its first draw is the serialized generator's, and it is
\* another generator after it.
C12_Witness ==
    \E j \in Calls, k \in Calls :
        /\ RoundTrip(j, k) /\ calls[k].ret = "nil"
        /\ ~SameIncrements(calls[k].pre, calls[j].pre)
        /\ Uint64(calls[k].post).ret = Uint64(calls[j].pre).ret
        /\ Uint64(calls[k].post).g # Uint64(calls[j].pre).g

\* Call k was made on the PCG64 (its receiver has the halves hi and lo), not
\* on the PCG32.
On64(k) == "hi" \in DOMAIN calls[k].pre

\* C13: Shuffle with a negative n panics, PCG64.Shuffle as well as
\* PCG32.Shuffle; with n in {0, 1} it returns without a call of swap and
\* without a draw.
C13_ShuffleFailsFast ==
    \A k \in Calls :
        calls[k].op = "Shuffle"
            => /\ calls[k].arg[1] < 0 => calls[k].panic
               /\ calls[k].arg[1] \in {0, 1}
                    => /\ ~calls[k].panic
                       /\ calls[k].ret = <<>>
                       /\ calls[k].draws = 0
                       /\ calls[k].post = calls[k].pre

\* res has length n and holds each of 0..n-1 exactly once.
IsPermutation(res, n) ==
    /\ Len(res) = n
    /\ \A v \in 0..(n - 1) : Cardinality({i \in 1..n : res[i] = v}) = 1

\* C14: for every n >= 0, Perm(n), PCG32.Perm and PCG64.Perm, returns a
\* sequence of length n in which each value of 0..n-1 occurs exactly once.
C14_PermIsPermutation ==
    \A k \in Calls :
        (calls[k].op = "Perm" /\ calls[k].arg[1] >= 0)
            => ~calls[k].panic /\ IsPermutation(calls[k].ret, calls[k].arg[1])

\* PCG32.Perm permuted 3 or more values with a draw for each swap, and
\* PCG64.Perm returned its values out of their order.
C14_Witness ==
    \E j \in Calls, k \in Calls :
        /\ calls[j].op = "Perm" /\ ~On64(j) /\ calls[j].arg[1] >= 3
        /\ calls[j].draws >= calls[j].arg[1] - 1
        /\ calls[j].post # calls[j].pre
        /\ calls[k].op = "Perm" /\ On64(k) /\ calls[k].arg[1] >= 2
        /\ calls[k].ret # [i \in 1..calls[k].arg[1] |-> i - 1]

\* C15: Read(buf), on the PCG64 and on the PCG32, returns (len(buf), nil) for
\* every length, 0 included, writes every byte of the buffer and indexes
\* nothing outside it; with length 0 it takes no draw and leaves the
\* generator as it was.
C15_ReadFillsBuffer ==
    \A k \in Calls :
        calls[k].op = "Read"
            => /\ ~calls[k].panic
               /\ calls[k].ret.n = calls[k].arg[1]
               /\ calls[k].ret.err = "nil"
               /\ Len(calls[k].ret.buf) = calls[k].arg[1]
               /\ \A i \in 1..calls[k].arg[1] : calls[k].ret.buf[i] \in Byte
               /\ calls[k].arg[1] = 0
                    => calls[k].draws = 0 /\ calls[k].post = calls[k].pre

\* PCG32.Read filled a buffer that ends inside a word after whole pairs of
\* words, and PCG64.Read one that ends inside a word after a whole pair.
C15_Witness ==
    \E j \in Calls, k \in Calls :
        /\ calls[j].op = "Read" /\ ~On64(j) /\ calls[j].arg[1] = 9
        /\ calls[j].draws = 3 /\ calls[j].ret.buf[9] \in Byte
        /\ calls[k].op = "Read" /\ On64(k) /\ calls[k].arg[1] = 17
        /\ calls[k].draws = 3 /\ calls[k].ret.buf[17] \in Byte

\* C16: after PCG64.Seed(seed1, seed2, seq1, seq2), for every seq1 and seq2,
\* equal ones and ones that differ in the top bit alone included,
\* hi.increment # lo.increment; lo is seeded from (seed1, seq1) and hi from
\* (seed2, seq2) or (seed2, ^seq2).
C16_SeedSeparatesStreams ==
    \A k \in Calls :
        (calls[k].op = "Seed" /\ On64(k))
            => /\ calls[k].post.hi.increment # calls[k].post.lo.increment
               /\ calls[k].post.lo = Seed(calls[k].pre.lo, calls[k].arg[1], calls[k].arg[3])
               /\ \/ calls[k].post.hi
                        = Seed(calls[k].pre.hi, calls[k].arg[2], calls[k].arg[4])
                  \/ calls[k].post.hi
                        = Seed(calls[k].pre.hi, calls[k].arg[2], Not(calls[k].arg[4]))

\* Seed was called with sequences that differ in the top bit alone, which
\* (seq << 1) | 1 drops, and hi was seeded from the complement.
C16_Witness ==
    \E k \in Calls :
        /\ calls[k].op = "Seed" /\ On64(k)
        /\ calls[k].arg[3] # calls[k].arg[4]
        /\ Shl(calls[k].arg[3], 1) = Shl(calls[k].arg[4], 1)
        /\ calls[k].post.hi = Seed(calls[k].pre.hi, calls[k].arg[2], Not(calls[k].arg[4]))
        /\ calls[k].post.hi.increment # calls[k].post.lo.increment

\* C18: Uint63 returns a value in [0, 2^63 - 1], the Uint64 draw of the same
\* call with its top bit cleared, and takes exactly one 64-bit draw.
C18_Uint63ClearsTopBit ==
    \A k \in Calls :
        calls[k].op = "Uint63"
            => /\ calls[k].ret[8] < 128
               /\ calls[k].ret
                    = [Uint64(calls[k].pre).ret EXCEPT ![8] = Uint64(calls[k].pre).ret[8] % 128]
               /\ calls[k].post = Uint64(calls[k].pre).g
               /\ calls[k].draws = 1

\* Uint63 was called where the 64-bit draw has its top bit set.
C18_Witness ==
    \E k \in Calls :
        /\ calls[k].op = "Uint63"
        /\ Uint64(calls[k].pre).ret[8] >= 128
        /\ calls[k].ret[8] < 128

\* The 128-bit word with halves hi and lo, and S * M + C modulo 2^128.
Wide(hi, lo) == lo \o hi
Step128(S) == Add(Truncate(MulWide(S, Wide(mulHi, mulLo)), 16), Wide(incHi, incLo))

\* C20: next sets (hi.state, lo.state) to the halves of (S * M + C) mod 2^128,
\* S = hi.state * 2^64 + lo.state, M = mulHi * 2^64 + mulLo and
\* C = incHi * 2^64 + incLo, the carry of the low-word addition included; it
\* returns the words after the step and leaves both increments unchanged.
C20_NextIs128BitStep ==
    \A k \in Calls :
        calls[k].op = "next"
            => /\ Wide(calls[k].post.hi.state, calls[k].post.lo.state)
                    = Step128(Wide(calls[k].pre.hi.state, calls[k].pre.lo.state))
               /\ calls[k].ret = <<calls[k].post.hi.state, calls[k].post.lo.state>>
               /\ SameIncrements(calls[k].post, calls[k].pre)

\* next was called where adding incLo to the low word of the product carries
\* into the high word.
C20_Witness ==
    \E k \in Calls :
        /\ calls[k].op = "next"
        /\ CarryOut(SubSeq(MulWide(calls[k].pre.lo.state, mulLo), 1, 8), incLo, 1, 0) = 1
        /\ Wide(calls[k].post.hi.state, calls[k].post.lo.state)
                = Step128(Wide(calls[k].pre.hi.state, calls[k].pre.lo.state))

\* C17: the rejection loops of Uintn32 and Uint64n terminate.  For every
\* bound > 0 the threshold (2^w - bound) mod bound is below the bound, and a
\* call whose loop is running reaches an accepted draw r >= threshold after
\* finitely many draws: the loop is left, the call returns r mod bound, and
\* its result, generator and number of draws are those of Uintn32(bound) and
\* Uint64n(bound).
NegBound(k) ==
    LET bound == calls[k].arg[1]
    IN Sub(FromNat(0, Len(bound)), bound)

ThresholdBelowBound ==
    \A k \in Calls :
        calls[k].op \in LoopOps =>
            /\ ~IsZero(calls[k].arg[1])
            /\ Lt(calls[k].ret, calls[k].arg[1])
            /\ calls[k].ret = ModLong(NegBound(k), calls[k].arg[1])

AcceptedDraw ==
    \A k \in Calls :
        /\ (calls[k].op = "Uintn32" /\ ~IsZero(calls[k].arg[1])) =>
              /\ calls[k].draws \in 1..MaxDraws
              /\ [g |-> calls[k].post, ret |-> calls[k].ret, draws |-> calls[k].draws]
                    = Uintn32(calls[k].pre, calls[k].arg[1])
        /\ (calls[k].op = "Uint64n" /\ ~calls[k].panic) =>
              /\ calls[k].draws \in 1..MaxDraws
              /\ [g |-> calls[k].post, ret |-> calls[k].ret, draws |-> calls[k].draws,
                  panic |-> FALSE] = Uint64n(calls[k].pre, calls[k].arg[1])

C17_SamplersTerminate ==
    /\ [](ThresholdBelowBound /\ AcceptedDraw)
    /\ Looping ~> ~Looping

\* A Uint64n whose loop rejected a draw before it accepted one, after a
\* Uintn32 whose loop ran as well.
C17_Witness ==
    \E j, k \in Calls :
        /\ calls[j].op = "Uintn32" /\ calls[j].draws >= 1
        /\ calls[k].op = "Uint64n" /\ calls[k].draws >= 2
        /\ Lt(calls[k].ret, calls[k].arg[1])

\* C19: advancedLCG64(state, delta, mul, add) is the delta-fold application of
\* x -> x*mul + add (mod 2^64) to state; with delta = 0 it returns state, and
\* its loop runs at most 64 passes (one per bit of delta).
RECURSIVE Fold(_, _, _, _)
Fold(x, n, mul, add) ==
    IF n = 0 THEN x ELSE Fold(Add(Mul(x, mul), add), n - 1, mul, add)

\* The number of bits of delta up to its highest set bit.
RECURSIVE BitLen(_)
BitLen(delta) == IF IsZero(delta) THEN 0 ELSE 1 + BitLen(Shr(delta, 1))

C19_AdvancedLCGIsFold ==
    \A k \in Calls :
        calls[k].op = "advancedLCG64" =>
            LET state == calls[k].arg[1]
                delta == calls[k].arg[2]
                mul == calls[k].arg[3]
                add == calls[k].arg[4]
            IN /\ calls[k].ret.iters <= 64
               /\ calls[k].ret.iters = BitLen(delta)
               /\ IsZero(delta) => calls[k].ret.value = state
               /\ Small(delta) =>
                    calls[k].ret.value = Fold(state, delta[1], mul, add)
               \* 2^64 - 1 steps and one more are 2^64 steps, the identity
               \* when mul = 1 (mod 4): x -> x + add, and the generator's
               \* own multiplier.
               /\ (delta = AllOnes /\ mul \in {U64(1), multiplier}) =>
                    Fold(calls[k].ret.value, 1, mul, add) = state
               \* With mul = 2 the n-fold is 2^n * x + (2^n - 1) * add, which
               \* is -add from n = 64 on.
               /\ (delta = AllOnes /\ mul = U64(2)) =>
                    calls[k].ret.value = Neg(add)

C19_Witness ==
    \E k \in Calls :
          /\ calls[k].op = "advancedLCG64"
          /\ calls[k].arg[2] = U64(MaxDelta)
          /\ calls[k].arg[3] = multiplier
          /\ calls[k].arg[4] = incrementStep
          /\ calls[k].ret.value # calls[k].arg[1]
          /\ calls[k].ret.value
                = Fold(calls[k].arg[1], MaxDelta, multiplier, incrementStep)
          /\ calls[k].ret.iters >= 3

\* C21: PCG64.Uint64 returns hi's 32-bit output in bits 63..32 and lo's in
\* bits 31..0, and advances each half by one LCG step with that half's own
\* increment; the state and output of one half do not depend on the other.
LCGStep(q) == [state |-> Add(Mul(q.state, multiplier), q.increment), increment |-> q.increment]

C21_Uint64JoinsHalves ==
    \A k \in Calls :
        (On64(k) /\ calls[k].op = "Uint64") =>
            LET c == calls[k]
            IN /\ SubSeq(c.ret, 5, 8) = Uint32(c.pre.hi).ret
               /\ SubSeq(c.ret, 1, 4) = Uint32(c.pre.lo).ret
               /\ c.post.hi = LCGStep(c.pre.hi)
               /\ c.post.lo = LCGStep(c.pre.lo)
               \* with the other half replaced by another generator, each
               \* half does what it did
               /\ Uint64([hi |-> c.pre.hi, lo |-> NewPCG32]).g.hi = c.post.hi
               /\ SubSeq(Uint64([hi |-> c.pre.hi, lo |-> NewPCG32]).ret, 5, 8)
                     = SubSeq(c.ret, 5, 8)
               /\ Uint64([hi |-> NewPCG32, lo |-> c.pre.lo]).g.lo = c.post.lo
               /\ SubSeq(Uint64([hi |-> NewPCG32, lo |-> c.pre.lo]).ret, 1, 4)
                     = SubSeq(c.ret, 1, 4)

\* A Uint64 on halves of different states and increments, whose two outputs
\* differ.
C21_Witness ==
    \E k \in Calls :
        /\ On64(k) /\ calls[k].op = "Uint64"
        /\ calls[k].pre.hi.increment # calls[k].pre.lo.increment
        /\ calls[k].pre.hi.state # calls[k].pre.lo.state
        /\ SubSeq(calls[k].ret, 5, 8) # SubSeq(calls[k].ret, 1, 4)
        /\ calls[k].post.hi.increment # U64(1)

\* C22: PCG64.Read on a buffer of n bytes makes ceil(n/8) draws of Uint64, and
\* byte k of the buffer is byte (k mod 8), least significant first, of draw
\* floor(k/8); so the bytes read into an m-byte buffer are a prefix of the
\* bytes read into any longer buffer from the same state.
RECURSIVE Draws64(_, _)
Draws64(q, n) ==
    IF n = 0 THEN [g |-> q, vals |-> <<>>]
    ELSE LET d == Uint64(q)
             rest == Draws64(d.g, n - 1)
         IN [g |-> rest.g, vals |-> <<d.ret>> \o rest.vals]

Read64IsDraws(c, d) ==
    /\ ~c.panic
    /\ c.draws = Len(d.vals)
    /\ c.post = d.g
    /\ c.ret.n = c.arg[1]
    /\ Len(c.ret.buf) = c.arg[1]
    /\ \A b \in 0..(c.arg[1] - 1) : c.ret.buf[b + 1] = d.vals[(b \div 8) + 1][(b % 8) + 1]
    /\ \A m \in BufLens64 :
          m <= c.arg[1] => Read64(c.pre, Buffer(m)).buf = SubSeq(c.ret.buf, 1, m)

C22_Read64IsDrawPrefix ==
    \A k \in Calls :
        (On64(k) /\ calls[k].op = "Read") =>
            Read64IsDraws(calls[k], Draws64(calls[k].pre, (calls[k].arg[1] + 7) \div 8))

\* A Read of 9 bytes and then one of 17 bytes, which takes its first 16 bytes
\* in the unrolled loop and its last from a third draw.
C22_Witness ==
    \E j, k \in Calls :
        /\ j < k
        /\ On64(j) /\ calls[j].op = "Read" /\ calls[j].arg[1] = 9 /\ calls[j].draws = 2
        /\ On64(k) /\ calls[k].op = "Read" /\ calls[k].arg[1] = MaxBuf64
        /\ calls[k].draws = 3
        /\ calls[k].ret.buf[MaxBuf64] \in Byte

\* C23: for n >= 2, Shuffle(n, swap) calls swap n - 1 times, its first
\* argument i taking the values n-1, n-2, ..., 1 in that order and its second
\* satisfying 0 <= j <= i; the bound handed to the sampler is never 0.
SwapsInOrder(c) ==
    \A s \in 1..Len(c.ret) :
        /\ c.ret[s].i = Sub(c.arg[1], U64(s))
        /\ Positive(c.ret[s].i)
        /\ ~Negative(c.ret[s].j)
        /\ Geq(c.ret[s].i, c.ret[s].j)

BoundsNonZero(c) == \A s \in 1..Len(c.ret) : ~IsZero(c.ret[s].bound)

SwapsComplete(c) ==
    c.op = "Shuffle" => (~c.panic /\ U64(Len(c.ret)) = Sub(c.arg[1], U64(1)))

Shuffles == {k \in Calls : calls[k].op \in {"Shuffle", "Shuffle.for"}
                            /\ ~Negative(calls[k].arg[1])
                            /\ Geq(calls[k].arg[1], U64(2))}

C23_ShuffleSwapsInOrder ==
    \A k \in Shuffles :
        SwapsInOrder(calls[k]) /\ SwapsComplete(calls[k]) /\ BoundsNonZero(calls[k])

\* C24: a generator built by NewPCG64(seed1, seed2) has hi.increment =
\* lo.increment = 1, and keeps them through Uint64, Uint63, Uint64n, Advance
\* and Retreat; when seed1 = seed2 the two halves hold equal states after any
\* such calls, and every Uint64 returns equal upper and lower 32-bit halves.
Built == IF calls = <<>> THEN p ELSE calls[1].pre

\* NewPCG64 seeds each half as (seed + 1) * multiplier + incrementStep, one
\* to one in seed: equal seeds are equal states of the halves.
EqualSeeds == Built.hi.state = Built.lo.state

C24_EqualSeedsTwinHalves ==
    /\ \E seeds \in SeedPairs :
          /\ Built.hi.state = Add(Mul(Add(seeds[1], U64(1)), multiplier), incrementStep)
          /\ Built.lo.state = Add(Mul(Add(seeds[2], U64(1)), multiplier), incrementStep)
          /\ EqualSeeds <=> seeds[1] = seeds[2]
    /\ Built.hi.increment = U64(1) /\ Built.lo.increment = U64(1)
    /\ p.hi.increment = U64(1) /\ p.lo.increment = U64(1)
    /\ EqualSeeds =>
          /\ p.hi = p.lo
          /\ \A k \in Calls :
                /\ calls[k].post.hi = calls[k].post.lo
                /\ calls[k].op = "Uint64" =>
                      SubSeq(calls[k].ret, 5, 8) = SubSeq(calls[k].ret, 1, 4)

\* From equal seeds, an Advance or a Retreat that moved the halves and then a
\* Uint64.
C24_Witness ==
    /\ EqualSeeds
    /\ Len(calls) = 2
    /\ calls[1].op \in {"Advance", "Retreat"}
    /\ calls[1].post # calls[1].pre
    /\ calls[2].op = "Uint64"
    /\ calls[2].post.hi = calls[2].post.lo
    /\ calls[2].post # calls[2].pre

\* C25: the integer that Float64Full converts is its Uint64 draw masked to
\* the low 56 bits, so it is below 2^56 while the divisor is 2^64 - 1: every
\* result lies in [0, 2^56 / (2^64 - 1)), below 1/255, and the rest of [0, 1)
\* is never returned.
\* A result f = m * 2^e is taken as the integer f * 2^64, in 24 bytes.
Scaled(f) == Shl(Extend(f.m, 24), f.e + 64)

One24 == Extend(U64(1), 24)

====
